---- MODULE Spec2Model ----
(***************************************************************************)
(* A model of app.py, the Streamlit dashboard of IPM-Prediction: one run   *)
(* of the script (load_model, load_data, sidebar, tab 1, tab 2, tab 3),    *)
(* the Growth projection of tab 2, forecast_drift and the batch            *)
(* forecaster of tab 3.                                                    *)
(*                                                                         *)
(* Numbers are exact rationals [n, d] in lowest terms with d > 0; the      *)
(* pair with d = 0 is NaN (a missing cell).  The regression model is an    *)
(* external artifact: a prediction is the uninterpreted term "pred" of     *)
(* the feature values it was asked about.                                  *)
(***************************************************************************)
EXTENDS Integers, Sequences, FiniteSets, TLC

VARIABLES
    pc,             \* position of the script run
    model_file,     \* environment: model_ipm_gradientboosting.joblib
    data_csv,       \* environment: data_ipm.csv
    uploaded_file,  \* environment: the file given to st.file_uploader
    model,          \* module global `model, feature_names`
    df_hist,        \* module global df_hist
    rendered,       \* the UI elements the run has drawn so far
    sidebar_pred,   \* the metric shown by the sidebar simulator
    daerah2,        \* tab 2: selected region
    horizon,        \* tab 2: slider value
    future_rows,    \* tab 2: the forecast rows
    df_proc,        \* tab 3: the prepared (sorted) input
    df_display,     \* tab 3: the final output table
    st_error,       \* tab 3: the st.error message, if any
    exception       \* the uncaught exception that ended the run, if any

vars == <<pc, model_file, data_csv, uploaded_file, model, df_hist, rendered,
          sidebar_pred, daerah2, horizon, future_rows, df_proc, df_display,
          st_error, exception>>

-----------------------------------------------------------------------------
(* Exact arithmetic on cell values.                                        *)

Abs(x) == IF x < 0 THEN -x ELSE x

RECURSIVE Gcd(_, _)
Gcd(a, b) == IF b = 0 THEN a ELSE Gcd(b, a % b)

NaN == [n |-> 0, d |-> 0]

IsNaN(x) == x.d = 0

\* the rational p/q, q # 0, in lowest terms
Frac(p, q) ==
    LET g == Gcd(Abs(p), Abs(q))
        s == IF q < 0 THEN -1 ELSE 1
    IN  [n |-> s * (p \div g), d |-> s * (q \div g)]

Num(k) == [n |-> k, d |-> 1]

\* float arithmetic: NaN propagates
Add(x, y) == IF IsNaN(x) \/ IsNaN(y) THEN NaN
             ELSE Frac(x.n * y.d + y.n * x.d, x.d * y.d)

Sub(x, y) == IF IsNaN(x) \/ IsNaN(y) THEN NaN
             ELSE Frac(x.n * y.d - y.n * x.d, x.d * y.d)

\* k * x and x / k for an integer k (k # 0 in DivInt)
MulInt(k, x) == IF IsNaN(x) THEN NaN ELSE Frac(k * x.n, x.d)

DivInt(x, k) == IF IsNaN(x) THEN NaN ELSE Frac(x.n, x.d * k)

Less(x, y) == x.n * y.d < y.n * x.d

\* Series.round(2): the nearest multiple of 1/100, a tie going to the even
\* one (numpy's rint of 100 * x)
Round2(x) ==
    IF IsNaN(x) THEN NaN
    ELSE LET p  == 100 * x.n
             fl == p \div x.d
             r2 == 2 * (p % x.d)
             k  == IF r2 < x.d THEN fl
                   ELSE IF r2 > x.d THEN fl + 1
                   ELSE IF fl % 2 = 0 THEN fl ELSE fl + 1
         IN  Frac(k, 100)

-----------------------------------------------------------------------------
(* Tables.  A row is a record over the columns below; a table is a         *)
(* sequence of rows with the set of columns it has.                        *)

drift_cols == <<"UHH", "HLS", "RLS", "Pengeluaran">>

wajib == <<"UHH", "HLS", "RLS", "Pengeluaran", "Tahun">>

model_features == <<"UHH", "HLS", "RLS", "Pengeluaran", "Tahun">>

Range(s) == {s[i] : i \in 1..Len(s)}

\* the four component cells of a row
Comps(r) == [c \in Range(drift_cols) |-> r[c]]

\* an IPM cell: a number (kind "num", NaN included) or a prediction of the
\* model for the named feature values (kind "pred"), rounded or not
NoFeatures == [c \in Range(model_features) |-> NaN]

IPMNum(x) == [kind |-> "num", num |-> x, of |-> NoFeatures, rounded |-> FALSE]

IPMMissing(c) == c.kind = "num" /\ IsNaN(c.num)

\* df[feature columns] of one row, by column name
Features(r) ==
    [c \in Range(model_features) |-> IF c = "Tahun" THEN Num(r.Tahun) ELSE r[c]]

HasNaN(r) == \E c \in Range(drift_cols) : IsNaN(r[c])

\* model.predict for one row: the value is the artifact's, known only as a
\* term over the features
Predict(r) == [kind |-> "pred", num |-> NaN, of |-> Features(r), rounded |-> FALSE]

\* the column df[col] of a table indexed by Tahun: (index, value) pairs
Column(rows, col) == [i \in 1..Len(rows) |-> [idx |-> rows[i].Tahun, val |-> rows[i][col]]]

RECURSIVE dropna(_)
dropna(series) ==
    IF series = <<>> THEN <<>>
    ELSE IF IsNaN(Head(series).val) THEN dropna(Tail(series))
    ELSE <<Head(series)>> \o dropna(Tail(series))

-----------------------------------------------------------------------------
(* forecast_drift, app.py lines 322-336.                                   *)

\* forecast_drift with the slope taken over T instead of T - 1 intervals
forecast_drift_SlopeOverT(series0, target_year) ==
    LET series == dropna(series0)
    IN  IF Len(series) < 2
        THEN IF Len(series) > 0 THEN series[Len(series)].val ELSE Num(0)
        ELSE LET y_last  == series[Len(series)].val
                 y_first == series[1].val
                 T       == Len(series)
                 slope   == DivInt(Sub(y_last, y_first), T)
                 h       == target_year - series[Len(series)].idx
             IN  IF h <= 0 THEN y_last ELSE Add(y_last, MulInt(h, slope))

\* forecast_drift answering 0 for a series of fewer than two points
forecast_drift_ShortIsZero(series0, target_year) ==
    LET series == dropna(series0)
    IN  IF Len(series) < 2
        THEN Num(0)
        ELSE LET y_last  == series[Len(series)].val
                 y_first == series[1].val
                 T       == Len(series)
                 slope   == DivInt(Sub(y_last, y_first), T - 1)
                 h       == target_year - series[Len(series)].idx
             IN  IF h <= 0 THEN y_last ELSE Add(y_last, MulInt(h, slope))

forecast_drift(series0, target_year) ==
    LET series == dropna(series0)
    IN  IF Len(series) < 2
        THEN IF Len(series) > 0 THEN series[Len(series)].val ELSE Num(0)
        ELSE LET y_last  == series[Len(series)].val
                 y_first == series[1].val
                 T       == Len(series)
                 slope   == DivInt(Sub(y_last, y_first), T - 1)
                 last_year_idx == series[Len(series)].idx
                 h       == target_year - last_year_idx
             IN  IF h <= 0 THEN y_last ELSE Add(y_last, MulInt(h, slope))

-----------------------------------------------------------------------------
(* Tab 3, app.py lines 341-485.                                            *)

target_year == 2030

\* the order of Python strings on the region names used here
CakupanOrder == <<"Aceh", "Bali", "Wilayah Upload">>

CakupanRank(name) == CHOOSE i \in 1..Len(CakupanOrder) : CakupanOrder[i] = name

\* a raw column name: text with spaces around it
RawName(lead, text, trail) == [lead |-> lead, text |-> text, trail |-> trail]

\* str.strip()
Strip(raw) == raw.text

\* rename_map, lines 356-365
rename_map ==
    [k \in {"tahun", "TAHUN", "uhh", "Uhh", "hls", "Hls", "rls", "Rls",
            "pengeluaran", "PENGELUARAN", "cakupan", "CAKUPAN", "IPM",
            "Indeks Pembangunan Manusia"} |->
        CASE k \in {"tahun", "TAHUN"} -> "Tahun"
          [] k \in {"uhh", "Uhh"} -> "UHH"
          [] k \in {"hls", "Hls"} -> "HLS"
          [] k \in {"rls", "Rls"} -> "RLS"
          [] k \in {"pengeluaran", "PENGELUARAN"} -> "Pengeluaran"
          [] k \in {"cakupan", "CAKUPAN"} -> "Cakupan"
          [] OTHER -> "IPM"]

\* df.rename(columns=rename_map) of one stripped name
Rename(name) == IF name \in DOMAIN rename_map THEN rename_map[name] ELSE name

\* lines 354-366: the column names after strip and rename
NormalisedColumns(raw_columns) == {Rename(Strip(raw)) : raw \in raw_columns}

\* line 369 with any() for all(): only a file with none of the required
\* columns is refused
ColumnsIncomplete_Any(columns) == ~ \E i \in 1..Len(wajib) : wajib[i] \in columns

\* line 369, negated: some required column is absent
ColumnsIncomplete(columns) == ~ \A i \in 1..Len(wajib) : wajib[i] \in columns

\* lines 373-379: df_proc before sorting
Prepare(columns, rows) ==
    [i \in 1..Len(rows) |->
        [rows[i] EXCEPT
            !.Cakupan = IF "Cakupan" \in columns THEN @ ELSE "Wilayah Upload",
            !.IPM     = IF "IPM" \in columns THEN @ ELSE IPMNum(NaN)]]

\* the sort key of line 381
KeyLeq(a, b) ==
    \/ CakupanRank(a.Cakupan) < CakupanRank(b.Cakupan)
    \/ a.Cakupan = b.Cakupan /\ a.Tahun <= b.Tahun

\* r put into a sorted sequence behind every row whose key is not larger
RECURSIVE Insert(_, _)
Insert(sorted, r) ==
    IF sorted = <<>> THEN <<r>>
    ELSE IF KeyLeq(Head(sorted), r) THEN <<Head(sorted)>> \o Insert(Tail(sorted), r)
    ELSE <<r>> \o sorted

\* line 381 left out: the rows stay in the order of the file
SortValues_Unsorted(rows) == rows

\* df.sort_values(by=['Cakupan', 'Tahun']), line 381: a stable sort
RECURSIVE SortValues(_)
SortValues(rows) ==
    IF rows = <<>> THEN <<>>
    ELSE Insert(SortValues(SubSeq(rows, 1, Len(rows) - 1)), rows[Len(rows)])

\* Series.unique(), line 385: the values in order of first appearance
RECURSIVE Unique(_)
Unique(names) ==
    IF names = <<>> THEN <<>>
    ELSE LET init == Unique(SubSeq(names, 1, Len(names) - 1))
             x    == names[Len(names)]
         IN  IF x \in Range(init) THEN init ELSE Append(init, x)

SelectRegion(rows, region) == SelectSeq(rows, LAMBDA r : r.Cakupan = region)

SeqMax(s) == CHOOSE m \in Range(s) : \A x \in Range(s) : x <= m

\* lines 402-409: the Forecast row of one region for year yr
NewRow(df_region, region, yr) ==
    [Cakupan |-> region, Tahun |-> yr, Tipe |-> "Forecast", IPM |-> IPMNum(NaN),
     UHH |-> forecast_drift(Column(df_region, "UHH"), yr),
     HLS |-> forecast_drift(Column(df_region, "HLS"), yr),
     RLS |-> forecast_drift(Column(df_region, "RLS"), yr),
     Pengeluaran |-> forecast_drift(Column(df_region, "Pengeluaran"), yr)]

\* the loop of line 401 stopping one year early: range(last_year + 1, target_year)
ForecastRows_ExclusiveEnd(df_region, region) ==
    LET last_year == SeqMax([i \in 1..Len(df_region) |-> df_region[i].Tahun])
    IN  IF last_year < target_year
        THEN [k \in 1..(target_year - last_year - 1) |->
                  NewRow(df_region, region, last_year + k)]
        ELSE <<>>

\* the loop of line 401 starting at the last observed year itself:
\* range(last_year, target_year)
ForecastRows_FromLastYear(df_region, region) ==
    LET last_year == SeqMax([i \in 1..Len(df_region) |-> df_region[i].Tahun])
    IN  IF last_year < target_year
        THEN [k \in 1..(target_year - last_year) |->
                  NewRow(df_region, region, last_year + k - 1)]
        ELSE <<>>

\* lines 397-411: the Forecast rows of one region, last_year + 1 .. target_year
ForecastRows(df_region, region) ==
    LET last_year == SeqMax([i \in 1..Len(df_region) |-> df_region[i].Tahun])
    IN  IF last_year < target_year
        THEN [k \in 1..(target_year - last_year) |->
                  NewRow(df_region, region, last_year + k)]
        ELSE <<>>

\* lines 392-411: one pass of the loop, the rows it appends to all_data
RegionBlock(proc, region) ==
    LET sel       == SelectRegion(proc, region)
        df_region == [i \in 1..Len(sel) |->
                         [Cakupan |-> sel[i].Cakupan, Tahun |-> sel[i].Tahun,
                          Tipe |-> "Aktual", IPM |-> sel[i].IPM,
                          UHH |-> sel[i].UHH, HLS |-> sel[i].HLS,
                          RLS |-> sel[i].RLS, Pengeluaran |-> sel[i].Pengeluaran]]
    IN  df_region \o ForecastRows(df_region, region)

\* lines 391-418: the loop over the regions and pd.concat
RECURSIVE AllData(_, _)
AllData(proc, regions) ==
    IF regions = <<>> THEN <<>>
    ELSE RegionBlock(proc, Head(regions)) \o AllData(proc, Tail(regions))

\* Series.round(2) of an IPM cell
RoundIPM(c) ==
    IF c.kind = "num" THEN IPMNum(Round2(c.num)) ELSE [c EXCEPT !.rounded = TRUE]

\* line 432 left out: the IPM column is not rounded
MergeIPM_NoRound(final) ==
    [i \in 1..Len(final) |->
        [final[i] EXCEPT
            !.IPM = IF IPMMissing(@) THEN [Predict(final[i]) EXCEPT !.rounded = TRUE]
                    ELSE @]]

\* lines 423-432: predict every row, fill the missing IPM cells, round
MergeIPM(final) ==
    [i \in 1..Len(final) |->
        [final[i] EXCEPT
            !.IPM = RoundIPM(IF IPMMissing(@) THEN Predict(final[i]) ELSE @)]]

\* lines 423-428: model.predict raises ValueError on a NaN feature unless the
\* estimator accepts missing values; the retry of line 426 raises it again
PredictRaises(m, final) == ~m.nanOK /\ \E i \in 1..Len(final) : HasNaN(final[i])

NoTable == [present |-> FALSE, rows |-> <<>>]

Table(rows) == [present |-> TRUE, rows |-> rows]

NoError == [kind |-> "none", names |-> <<>>]

\* lines 348-485 for one uploaded file: what the tab leaves behind
Tab3Result(file, m) ==
    LET columns == NormalisedColumns(file.columns)
        proc    == SortValues(Prepare(columns, file.rows))
        regions == Unique([i \in 1..Len(proc) |-> proc[i].Cakupan])
        final   == AllData(proc, regions)
    IN  IF ColumnsIncomplete(columns)
        THEN [df_proc |-> NoTable, df_display |-> NoTable,
              st_error |-> [kind |-> "Kolom wajib tidak lengkap", names |-> wajib]]
        ELSE IF final = <<>>
        \* pd.concat([]) raises ValueError, caught at line 484
        THEN [df_proc |-> Table(proc), df_display |-> NoTable,
              st_error |-> [kind |-> "Terjadi error", names |-> <<>>]]
        ELSE IF PredictRaises(m, final)
        THEN [df_proc |-> Table(proc), df_display |-> NoTable,
              st_error |-> [kind |-> "Terjadi error", names |-> <<>>]]
        ELSE [df_proc |-> Table(proc), df_display |-> Table(MergeIPM(final)),
              st_error |-> NoError]

Tab3 ==
    /\ pc = "tab3"
    /\ pc' = "done"
    /\ IF uploaded_file.present
       THEN LET res == Tab3Result(uploaded_file, model)
            IN  /\ df_proc' = res.df_proc
                /\ df_display' = res.df_display
                /\ st_error' = res.st_error
                /\ rendered' = rendered \cup {"tab3_uploader"} \cup
                      (IF res.df_display.present
                       THEN {"tab3_table", "tab3_chart", "tab3_download"} ELSE {})
       ELSE /\ rendered' = rendered \cup {"tab3_uploader"}
            /\ UNCHANGED <<df_proc, df_display, st_error>>
    /\ UNCHANGED <<model_file, data_csv, uploaded_file, model, df_hist,
                   sidebar_pred, daerah2, horizon, future_rows, exception>>

-----------------------------------------------------------------------------
(* Tab 2, app.py lines 207-314.                                            *)

\* the slider values tried: MinHorizon .. HorizonTried
HorizonTried == 3

MinHorizon == 1

MaxHorizon == 10

\* Series.diff(): the differences of consecutive rows (the first is NaN)
Diff(rows, col) == [i \in 1..(Len(rows) - 1) |-> Sub(rows[i + 1][col], rows[i][col])]

RECURSIVE Sum(_)
Sum(s) == IF s = <<>> THEN Num(0) ELSE Add(Head(s), Sum(Tail(s)))

\* Series.mean(): NaN cells are skipped; NaN when none is left
Mean(s) ==
    LET kept == SelectSeq(s, LAMBDA x : ~IsNaN(x))
    IN  IF kept = <<>> THEN NaN ELSE DivInt(Sum(kept), Len(kept))

\* lines 228-233
Growth(df_d) == [c \in Range(drift_cols) |-> Mean(Diff(df_d, c))]

\* lines 245-256: the row of one step, from the row `current`
NextRow(current, growth, year) ==
    LET new == [current EXCEPT !.Tahun = year,
                               !.UHH = Add(@, growth["UHH"]),
                               !.HLS = Add(@, growth["HLS"]),
                               !.RLS = Add(@, growth["RLS"]),
                               !.Pengeluaran = Add(@, growth["Pengeluaran"])]
    IN  [new EXCEPT !.IPM_Forecast = Predict(new)]

\* the loop without line 259: every step starts from the last observed row
RECURSIVE GrowthLoop_NoChain(_, _, _, _, _)
GrowthLoop_NoChain(current, growth, last_year, i, hz) ==
    IF i > hz THEN <<>>
    ELSE <<NextRow(current, growth, last_year + i)>>
         \o GrowthLoop_NoChain(current, growth, last_year, i + 1, hz)

\* lines 244-259: steps i .. hz of the loop
RECURSIVE GrowthLoop(_, _, _, _, _)
GrowthLoop(current, growth, last_year, i, hz) ==
    IF i > hz THEN <<>>
    ELSE LET new == NextRow(current, growth, last_year + i)
         IN  <<new>> \o GrowthLoop(new, growth, last_year, i + 1, hz)

\* line 221: the rows of one region, by year
RegionHistory(hist, daerah) ==
    SortValues(SelectRegion(hist, daerah))

\* line 223
NUnique(rows) == Cardinality({rows[i].Tahun : i \in 1..Len(rows)})

\* lines 235-259
GrowthForecast(df_d, hz) ==
    LET last_row  == [Cakupan |-> df_d[Len(df_d)].Cakupan,
                      Tahun |-> df_d[Len(df_d)].Tahun,
                      UHH |-> df_d[Len(df_d)].UHH,
                      HLS |-> df_d[Len(df_d)].HLS,
                      RLS |-> df_d[Len(df_d)].RLS,
                      Pengeluaran |-> df_d[Len(df_d)].Pengeluaran,
                      IPM |-> df_d[Len(df_d)].IPM,
                      IPM_Forecast |-> IPMNum(NaN)]
        last_year == last_row.Tahun
    IN  GrowthLoop(last_row, Growth(df_d), last_year, 1, hz)

Tab2 ==
    /\ pc = "tab2"
    /\ IF ~df_hist.present
       THEN /\ rendered' = rendered \cup {"tab2_warning_no_data"}
            /\ pc' = "tab3"
            /\ UNCHANGED <<daerah2, horizon, future_rows, exception>>
       ELSE \E d \in {df_hist.rows[i].Cakupan : i \in 1..Len(df_hist.rows)} :
            /\ daerah2' = d
            /\ IF NUnique(RegionHistory(df_hist.rows, d)) < 2
               THEN /\ rendered' = rendered \cup {"tab2_warning_too_few_years"}
                    /\ pc' = "tab3"
                    /\ UNCHANGED <<horizon, future_rows, exception>>
               ELSE \E hz \in MinHorizon..(IF MaxHorizon < HorizonTried
                                           THEN MaxHorizon ELSE HorizonTried) :
                    LET rows == GrowthForecast(RegionHistory(df_hist.rows, d), hz)
                    IN  /\ horizon' = hz
                        /\ IF ~model.nanOK /\ HasNaN(rows[1])
                           \* model.predict raises in the loop: nothing catches it
                           THEN /\ exception' = "ValueError"
                                /\ pc' = "crashed"
                                /\ UNCHANGED <<future_rows, rendered>>
                           ELSE /\ future_rows' = rows
                                /\ rendered' = rendered \cup
                                     {"tab2_table", "tab2_chart", "tab2_download"}
                                /\ pc' = "tab3"
                                /\ UNCHANGED exception
    /\ UNCHANGED <<model_file, data_csv, uploaded_file, model, df_hist,
                   sidebar_pred, df_proc, df_display, st_error>>

-----------------------------------------------------------------------------
(* The start of the script, the sidebar and tab 1, app.py lines 12-202.    *)

\* lines 12-15 and 24: joblib.load raises when the file is absent or cannot
\* be deserialised, and nothing catches it
LoadModel ==
    /\ pc = "load_model"
    /\ IF model_file.state = "ok"
       THEN /\ model' = [loaded |-> TRUE, features |-> model_features,
                         nanOK |-> model_file.nanOK]
            /\ pc' = "load_data"
            /\ UNCHANGED exception
       ELSE /\ exception' = IF model_file.state = "absent"
                            THEN "FileNotFoundError" ELSE "UnpicklingError"
            /\ pc' = "crashed"
            /\ UNCHANGED model
    /\ UNCHANGED <<model_file, data_csv, uploaded_file, df_hist, rendered,
                   sidebar_pred, daerah2, horizon, future_rows, df_proc,
                   df_display, st_error>>

\* lines 17-21 and 25, then the page header of lines 27-42
LoadData ==
    /\ pc = "load_data"
    /\ df_hist' = IF data_csv.present THEN data_csv ELSE NoTable
    /\ rendered' = rendered \cup {"header"}
    /\ pc' = "sidebar"
    /\ UNCHANGED <<model_file, data_csv, uploaded_file, model, sidebar_pred,
                   daerah2, horizon, future_rows, df_proc, df_display,
                   st_error, exception>>

\* the default widget values of lines 55-62
SidebarInput ==
    [UHH |-> Num(73), HLS |-> Num(13), RLS |-> Num(9),
     Pengeluaran |-> Num(12000000), Tahun |-> 2025]

\* lines 48-86
Sidebar ==
    /\ pc = "sidebar"
    /\ \E submitted \in BOOLEAN :
          IF submitted /\ model.loaded
          THEN /\ sidebar_pred' = Predict(SidebarInput)
               /\ rendered' = rendered \cup {"sidebar_form", "sidebar_metric"}
          ELSE /\ rendered' = rendered \cup {"sidebar_form"}
               /\ UNCHANGED sidebar_pred
    /\ pc' = "tab1"
    /\ UNCHANGED <<model_file, data_csv, uploaded_file, model, df_hist,
                   daerah2, horizon, future_rows, df_proc, df_display,
                   st_error, exception>>

\* lines 101-202
Tab1 ==
    /\ pc = "tab1"
    /\ rendered' = rendered \cup (IF df_hist.present THEN {"tab1_charts"}
                                  ELSE {"tab1_warning_no_data"})
    /\ pc' = "tab2"
    /\ UNCHANGED <<model_file, data_csv, uploaded_file, model, df_hist,
                   sidebar_pred, daerah2, horizon, future_rows, df_proc,
                   df_display, st_error, exception>>

-----------------------------------------------------------------------------
(* The inputs.                                                             *)

MaxRows == 3

YearsBack == 2

Years == (target_year - YearsBack)..(target_year + 1)

Cakupans == {"Aceh", "Bali"}

AllColumns == {"Cakupan", "Tahun", "UHH", "HLS", "RLS", "Pengeluaran", "IPM"}

\* the cells of an uploaded row other than region and year
UploadProfiles ==
    { [UHH |-> Num(70), HLS |-> Num(10), RLS |-> Num(8), Pengeluaran |-> Num(12),
       IPM |-> IPMNum(NaN)],
      [UHH |-> Num(71), HLS |-> Num(0), RLS |-> Num(8), Pengeluaran |-> Num(15),
       IPM |-> IPMNum(Frac(70126, 1000))],
      [UHH |-> NaN, HLS |-> Num(13), RLS |-> Num(8), Pengeluaran |-> Num(9),
       IPM |-> IPMNum(Frac(7125, 100))] }

\* the cells of a row of data_ipm.csv other than region and year
HistProfiles ==
    { [UHH |-> Num(70), HLS |-> Num(12), RLS |-> Num(8), Pengeluaran |-> Num(10),
       IPM |-> IPMNum(Frac(695, 10))],
      [UHH |-> Num(72), HLS |-> Num(12), RLS |-> Num(7), Pengeluaran |-> Num(13),
       IPM |-> IPMNum(Frac(701, 10))],
      [UHH |-> Num(74), HLS |-> NaN, RLS |-> Num(9), Pengeluaran |-> Num(11),
       IPM |-> IPMNum(Num(71))] }

MkRow(cakupan, tahun, p) ==
    [Cakupan |-> cakupan, Tahun |-> tahun, UHH |-> p.UHH, HLS |-> p.HLS,
     RLS |-> p.RLS, Pengeluaran |-> p.Pengeluaran, IPM |-> p.IPM]

\* a row as a file with the given (normalised) columns holds it: a column
\* the file does not have holds nothing
Held(columns, r) ==
    [Cakupan |-> IF "Cakupan" \in columns THEN r.Cakupan ELSE "",
     Tahun   |-> IF "Tahun" \in columns THEN r.Tahun ELSE 0,
     UHH     |-> IF "UHH" \in columns THEN r.UHH ELSE NaN,
     HLS     |-> IF "HLS" \in columns THEN r.HLS ELSE NaN,
     RLS     |-> IF "RLS" \in columns THEN r.RLS ELSE NaN,
     Pengeluaran |-> IF "Pengeluaran" \in columns THEN r.Pengeluaran ELSE NaN,
     IPM     |-> IF "IPM" \in columns THEN r.IPM ELSE IPMNum(NaN)]

RowsOver(columns, profiles) ==
    { Held(columns, r) :
      r \in {MkRow(c, y, p) : c \in Cakupans, y \in Years, p \in profiles} }

SeqsUpTo(S, n) == UNION {[1..k -> S] : k \in 0..n}

Canonical(columns) == {RawName(0, c, 0) : c \in columns}

\* the raw spellings of a column name tried below: as is, padded, in a
\* spelling rename_map knows, and in one it does not know
Spellings(c) ==
    {RawName(0, c, 0), RawName(1, c, 2)} \cup
    (CASE c = "UHH" -> {RawName(0, "uhh", 0), RawName(0, "Uhh", 1), RawName(0, "UHh", 0)}
       [] c = "HLS" -> {RawName(0, "hls", 0), RawName(0, "Hls", 0), RawName(0, "HLs", 0)}
       [] c = "RLS" -> {RawName(0, "rls", 0), RawName(1, "Rls", 0), RawName(0, "rLS", 0)}
       [] c = "Pengeluaran" -> {RawName(0, "pengeluaran", 0), RawName(0, "PENGELUARAN", 0),
                                RawName(0, "Pengeluaran per Kapita", 0)}
       [] c = "Tahun" -> {RawName(0, "tahun", 0), RawName(0, "TAHUN", 0), RawName(0, "Year", 0)}
       [] c = "Cakupan" -> {RawName(0, "cakupan", 0), RawName(0, "CAKUPAN", 0),
                            RawName(0, "Provinsi", 0)}
       [] OTHER -> {RawName(0, "Indeks Pembangunan Manusia", 0), RawName(0, "ipm", 0)})

\* the headers tried in a full run: the seven columns, one of them spelled
\* differently or left out, or two of the required ones left out
Headers ==
    UNION { {Canonical(AllColumns \ {c}) \cup {x} : x \in Spellings(c)} : c \in AllColumns }
    \cup {Canonical(AllColumns \ {c}) : c \in AllColumns}
    \cup {Canonical(AllColumns \ {"RLS", "Tahun"}), Canonical(AllColumns \ {"UHH", "HLS"})}

NoFile == [present |-> FALSE, columns |-> {}, rows |-> <<>>]

File(columns, rows) == [present |-> TRUE, columns |-> columns, rows |-> rows]

\* the headers of the batch runs: well spelled, with or without the region
BatchColumns == {AllColumns, AllColumns \ {"Cakupan"}}

\* no (region, year) twice
UniqueKeys(t) ==
    \A i, j \in 1..Len(t) :
        i # j => <<t[i].Cakupan, t[i].Tahun>> # <<t[j].Cakupan, t[j].Tahun>>

ModelFiles ==
    { [state |-> "absent", nanOK |-> FALSE], [state |-> "corrupt", nanOK |-> FALSE],
      [state |-> "ok", nanOK |-> FALSE], [state |-> "ok", nanOK |-> TRUE] }

NoModel == [loaded |-> FALSE, features |-> <<>>, nanOK |-> FALSE]

-----------------------------------------------------------------------------
(* Specifications.                                                         *)

\* one table of two regions, used by the full runs
SampleRows ==
    << MkRow("Bali", target_year - 2,
             [UHH |-> Num(71), HLS |-> Num(0), RLS |-> Num(8), Pengeluaran |-> Num(15),
              IPM |-> IPMNum(Frac(70126, 1000))]),
       MkRow("Aceh", target_year - 1,
             [UHH |-> Num(70), HLS |-> Num(10), RLS |-> Num(8), Pengeluaran |-> Num(12),
              IPM |-> IPMNum(NaN)]),
       MkRow("Bali", target_year - 3,
             [UHH |-> Num(70), HLS |-> Num(10), RLS |-> Num(8), Pengeluaran |-> Num(12),
              IPM |-> IPMNum(NaN)]) >>

SampleFile(header) ==
    File(header, [i \in 1..Len(SampleRows) |->
                     Held(NormalisedColumns(header), SampleRows[i])])

StartVars ==
    /\ model = NoModel
    /\ df_hist = NoTable
    /\ rendered = {}
    /\ sidebar_pred = IPMNum(NaN)
    /\ daerah2 = ""
    /\ horizon = 0
    /\ future_rows = <<>>
    /\ df_proc = NoTable
    /\ df_display = NoTable
    /\ st_error = NoError
    /\ exception = "none"

\* a full run of the script
Init ==
    /\ pc = "load_model"
    /\ model_file \in ModelFiles
    /\ data_csv \in {NoTable, Table(SampleRows), Table(SubSeq(SampleRows, 1, 2))}
    /\ uploaded_file \in {NoFile} \cup {SampleFile(h) : h \in Headers}
    /\ StartVars

Next == LoadModel \/ LoadData \/ Sidebar \/ Tab1 \/ Tab2 \/ Tab3

Spec == Init /\ [][Next]_vars

\* tab 3 of a run that loaded the model and found no data_ipm.csv
InitBatch ==
    /\ pc = "tab3"
    /\ model_file \in {f \in ModelFiles : f.state = "ok"}
    /\ model = [loaded |-> TRUE, features |-> model_features, nanOK |-> model_file.nanOK]
    /\ data_csv = NoTable
    /\ df_hist = NoTable
    \* every table of up to MaxRows rows
    /\ \E cols \in BatchColumns : \E k \in 0..MaxRows :
          \E rows \in [1..k -> RowsOver(cols, UploadProfiles)] :
              uploaded_file = File(Canonical(cols), rows)
    /\ rendered = {"header", "sidebar_form", "tab1_warning_no_data", "tab2_warning_no_data"}
    /\ sidebar_pred = IPMNum(NaN)
    /\ daerah2 = ""
    /\ horizon = 0
    /\ future_rows = <<>>
    /\ df_proc = NoTable
    /\ df_display = NoTable
    /\ st_error = NoError
    /\ exception = "none"

NextBatch == Tab3

SpecBatch == InitBatch /\ [][NextBatch]_vars

\* tab 2 of a run that loaded the model and data_ipm.csv, with the given
\* upload waiting for tab 3
GrowthStart(file) ==
    /\ pc = "tab2"
    /\ model_file \in {f \in ModelFiles : f.state = "ok"}
    /\ model = [loaded |-> TRUE, features |-> model_features, nanOK |-> model_file.nanOK]
    \* every table of 1 to MaxRows rows with no (region, year) twice
    /\ \E k \in 1..MaxRows : \E t \in [1..k -> RowsOver(AllColumns, HistProfiles)] :
          UniqueKeys(t) /\ data_csv = Table(t)
    /\ df_hist = data_csv
    /\ uploaded_file = file
    /\ rendered = {"header", "sidebar_form", "tab1_charts"}
    /\ sidebar_pred = IPMNum(NaN)
    /\ daerah2 = ""
    /\ horizon = 0
    /\ future_rows = <<>>
    /\ df_proc = NoTable
    /\ df_display = NoTable
    /\ st_error = NoError
    /\ exception = "none"

InitGrowth == GrowthStart(NoFile)

NextGrowth == Tab2

SpecGrowth == InitGrowth /\ [][NextGrowth]_vars

\* tab 2 or tab 3 of such runs
InitForecasts == GrowthStart(SampleFile(Canonical(AllColumns))) \/ InitBatch

NextForecasts == Tab2 \/ Tab3

SpecForecasts == InitForecasts /\ [][NextForecasts]_vars

\* the years of the tables given to both tabs: they end at the target year,
\* so that tab 3 has years left to forecast after a history of three rows
AgreeYears == (target_year - YearsBack - 1)..target_year

\* tab 2 and then tab 3 of a run whose upload is the table of data_ipm.csv
InitAgree ==
    /\ pc = "tab2"
    /\ model_file \in {f \in ModelFiles : f.state = "ok"}
    /\ model = [loaded |-> TRUE, features |-> model_features, nanOK |-> model_file.nanOK]
    /\ \E k \in 1..MaxRows :
          \E t \in [1..k -> {MkRow(c, y, p) :
                               c \in Cakupans, y \in AgreeYears, p \in HistProfiles}] :
              UniqueKeys(t) /\ data_csv = Table(t)
    /\ df_hist = data_csv
    /\ uploaded_file = File(Canonical(AllColumns), data_csv.rows)
    /\ rendered = {"header", "sidebar_form", "tab1_charts"}
    /\ sidebar_pred = IPMNum(NaN)
    /\ daerah2 = ""
    /\ horizon = 0
    /\ future_rows = <<>>
    /\ df_proc = NoTable
    /\ df_display = NoTable
    /\ st_error = NoError
    /\ exception = "none"

NextAgree == Tab2 \/ Tab3

SpecAgree == InitAgree /\ [][NextAgree]_vars

-----------------------------------------------------------------------------
(* Properties of the batch forecaster.                                     *)

\* tab 3 has finished and produced its output table
BatchDone == pc = "done" /\ df_display.present

\* the uploaded table, a file without a region column being one region
InputTable ==
    [i \in 1..Len(uploaded_file.rows) |->
        [uploaded_file.rows[i] EXCEPT
            !.Cakupan = IF RawName(0, "Cakupan", 0) \in uploaded_file.columns
                        THEN @ ELSE "Wilayah Upload"]]

RegionsOf(rows) == {rows[i].Cakupan : i \in 1..Len(rows)}

RowsOf(rows, g) == {i \in 1..Len(rows) : rows[i].Cakupan = g}

RowsOfType(rows, g, tipe) == {i \in RowsOf(rows, g) : rows[i].Tipe = tipe}

LastObserved(rows, g) ==
    CHOOSE y \in {rows[i].Tahun : i \in RowsOf(rows, g)} :
        \A i \in RowsOf(rows, g) : rows[i].Tahun <= y

Max0(x) == IF x > 0 THEN x ELSE 0

\* C1: in the batch output, every region of the input has as many rows as
\* it has input rows plus max(0, 2030 - its last observed year); the added
\* rows are tagged Forecast and the input rows Aktual.
C1_RowCount ==
    BatchDone =>
        /\ RegionsOf(df_display.rows) = RegionsOf(InputTable)
        /\ \A g \in RegionsOf(InputTable) :
            /\ Cardinality(RowsOf(df_display.rows, g)) =
                  Cardinality(RowsOf(InputTable, g))
                  + Max0(2030 - LastObserved(InputTable, g))
            /\ Cardinality(RowsOfType(df_display.rows, g, "Aktual")) =
                  Cardinality(RowsOf(InputTable, g))
            /\ Cardinality(RowsOfType(df_display.rows, g, "Forecast")) =
                  Max0(2030 - LastObserved(InputTable, g))

\* a batch output of two regions, one observed up to 2028 and one beyond 2030
C1_Witness ==
    /\ BatchDone
    /\ \E g, k \in RegionsOf(InputTable) :
          /\ LastObserved(InputTable, g) = 2028
          /\ Cardinality(RowsOf(InputTable, g)) = 2
          /\ Cardinality(RowsOf(df_display.rows, g)) = 4
          /\ LastObserved(InputTable, k) = 2031
          /\ Cardinality(RowsOf(df_display.rows, k)) = 1

\* C2: no Forecast row of the batch output has a negative component (the
\* Drift extrapolation is clamped at zero).
C2_ForecastNonNegative ==
    BatchDone =>
        \A i \in 1..Len(df_display.rows) : \A c \in Range(drift_cols) :
            df_display.rows[i].Tipe = "Forecast" =>
                ~Less(df_display.rows[i][c], Num(0))

-----------------------------------------------------------------------------
(* Properties of the Growth projection of tab 2.                           *)

\* the history of the selected region, by year
History == RegionHistory(df_hist.rows, daerah2)

LastRow == History[Len(History)]

\* the consecutive pairs of the history with both values of column c observed
ObservedPairs(c) ==
    {i \in 1..(Len(History) - 1) : ~IsNaN(History[i][c]) /\ ~IsNaN(History[i + 1][c])}

RECURSIVE SumOver(_, _)
SumOver(I, c) ==
    IF I = {} THEN Num(0)
    ELSE LET i == CHOOSE j \in I : TRUE
         IN  Add(Sub(History[i + 1][c], History[i][c]), SumOver(I \ {i}, c))

\* the mean of the consecutive observed differences of column c
MeanDiff(c) ==
    IF ObservedPairs(c) = {} THEN NaN
    ELSE DivInt(SumOver(ObservedPairs(c), c), Cardinality(ObservedPairs(c)))

\* C3: the Growth projection compounds: each component at step i is the
\* value of step i - 1 (the last observed value for i = 1) plus the mean of
\* the consecutive observed differences, hence last + i * mean; the series
\* 70, 72, 74 gives 76 then 78.
C3_GrowthCompounds ==
    future_rows # <<>> =>
        /\ \A i \in 1..Len(future_rows) : \A c \in Range(drift_cols) :
            /\ future_rows[i][c] =
                  Add(IF i = 1 THEN LastRow[c] ELSE future_rows[i - 1][c], MeanDiff(c))
            /\ future_rows[i][c] = Add(LastRow[c], MulInt(i, MeanDiff(c)))
        /\ ( /\ [k \in 1..Len(History) |-> History[k].UHH] = <<Num(70), Num(72), Num(74)>>
             /\ Len(future_rows) >= 2 )
           => future_rows[1].UHH = Num(76) /\ future_rows[2].UHH = Num(78)

\* the series 70, 72, 74 projected three steps, with a fractional mean
\* difference in another column
C3_Witness ==
    /\ future_rows # <<>>
    /\ [k \in 1..Len(History) |-> History[k].UHH] = <<Num(70), Num(72), Num(74)>>
    /\ Len(future_rows) = 3
    /\ future_rows[2].UHH = Num(78)
    /\ MeanDiff("RLS") = Frac(1, 2)
    /\ future_rows[3].RLS = Frac(21, 2)

-----------------------------------------------------------------------------
(* Properties of forecast_drift in the batch forecaster.                   *)

\* the observed (non-missing) points of column c of region g, in the order
\* of the sorted input
Observed(g, c) ==
    LET sel == SelectSeq(df_proc.rows, LAMBDA r : r.Cakupan = g /\ ~IsNaN(r[c]))
    IN  [k \in 1..Len(sel) |-> [year |-> sel[k].Tahun, y |-> sel[k][c]]]

\* C4: with T >= 2 observed points and h = target year - last observed
\* year > 0, the forecast is yT + h * (yT - y1) / (T - 1), from the first
\* and last observations only; a constant series stays constant.
C4_DriftClosedForm ==
    BatchDone =>
        \A i \in 1..Len(df_display.rows) : \A c \in Range(drift_cols) :
            LET row == df_display.rows[i]
                obs == Observed(row.Cakupan, c)
                T   == Len(obs)
                h   == row.Tahun - obs[T].year
            IN  (row.Tipe = "Forecast" /\ T >= 2 /\ h > 0) =>
                  /\ MulInt(T - 1, Sub(row[c], obs[T].y)) =
                        MulInt(h, Sub(obs[T].y, obs[1].y))
                  /\ (\A k \in 1..T : obs[k].y = obs[1].y) => row[c] = obs[1].y

\* a forecast two years past a series of three points with a fractional
\* slope, beside a constant series
C4_Witness ==
    /\ BatchDone
    /\ \E i \in 1..Len(df_display.rows) :
          LET row == df_display.rows[i]
          IN  /\ row.Tipe = "Forecast"
              /\ Len(Observed(row.Cakupan, "UHH")) = 3
              /\ row.Tahun - Observed(row.Cakupan, "UHH")[3].year = 2
              /\ row.UHH = Num(72)
              /\ Observed(row.Cakupan, "UHH")[1].y = Num(70)
              /\ Observed(row.Cakupan, "UHH")[3].y = Num(71)
              /\ row.RLS = Num(8)

-----------------------------------------------------------------------------
(* Forecast years.                                                         *)

\* C5: the k-th Forecast row of a region has year last observed year + k,
\* in the Growth forecast of tab 2 and in the batch forecast of tab 3.
C5_ContiguousYears ==
    /\ future_rows # <<>> =>
          \A k \in 1..Len(future_rows) :
              future_rows[k].Tahun = LastObserved(df_hist.rows, daerah2) + k
    /\ BatchDone =>
          \A g \in RegionsOf(InputTable) :
              \A i \in RowsOfType(df_display.rows, g, "Forecast") :
                  df_display.rows[i].Tahun =
                      LastObserved(InputTable, g)
                      + Cardinality({j \in RowsOfType(df_display.rows, g, "Forecast") : j <= i})

\* a run with a Growth forecast of three steps and a batch output with a
\* second Forecast row for one region
C5_Witness ==
    /\ Len(future_rows) = 3
    /\ future_rows[3].Tahun = LastObserved(df_hist.rows, daerah2) + 3
    /\ BatchDone
    /\ \E g \in RegionsOf(InputTable) :
          \E i, j \in RowsOfType(df_display.rows, g, "Forecast") :
              i < j /\ df_display.rows[j].Tahun = 2030

-----------------------------------------------------------------------------
(* Regions with a single observation.                                      *)

YearsOf(rows, g) == {rows[i].Tahun : i \in RowsOf(rows, g)}

-----------------------------------------------------------------------------
(* Errors.                                                                 *)

\* the required columns the uploaded file lacks after normalisation
Missing ==
    {c \in Range(wajib) : c \notin NormalisedColumns(uploaded_file.columns)}

RunEnded == pc \in {"done", "crashed"}

\* C8: a failing load of the model artifact is not fatal: the run goes on
\* with the prediction-dependent operations disabled, and tab 1 is still
\* rendered when the historical dataset is present.
C8_ModelFailureNotFatal ==
    (model_file.state # "ok" /\ RunEnded) =>
        /\ pc = "done"
        /\ exception = "none"
        /\ data_csv.present => "tab1_charts" \in rendered
        /\ "sidebar_metric" \notin rendered
        /\ future_rows = <<>>
        /\ ~df_display.present

-----------------------------------------------------------------------------
(* The Aktual rows and the order of the batch output.                      *)

Aktual == SelectSeq(df_display.rows, LAMBDA r : r.Tipe = "Aktual")

Occurrences(rows, r) == Cardinality({i \in 1..Len(rows) : rows[i] = r})

\* the Aktual rows are the rows of the input, in the order of df_proc, with
\* region, year and components as uploaded
AktualRowsAreInput ==
    /\ Len(Aktual) = Len(df_proc.rows)
    /\ \A r \in Range(InputTable) \cup Range(df_proc.rows) :
          Occurrences(InputTable, r) = Occurrences(df_proc.rows, r)
    /\ \A i \in 1..Len(Aktual) :
          /\ Aktual[i].Cakupan = df_proc.rows[i].Cakupan
          /\ Aktual[i].Tahun = df_proc.rows[i].Tahun
          /\ Comps(Aktual[i]) = Comps(df_proc.rows[i])
          /\ IPMMissing(df_proc.rows[i].IPM) =>
                /\ Aktual[i].IPM.kind = "pred"
                /\ Aktual[i].IPM.of = Features(df_proc.rows[i])

C10_OutputOrdered ==
    BatchDone =>
        \A i, j \in 1..Len(df_display.rows) :
            i < j =>
                LET a == df_display.rows[i]
                    b == df_display.rows[j]
                IN  \/ CakupanRank(a.Cakupan) < CakupanRank(b.Cakupan)
                    \/ /\ a.Cakupan = b.Cakupan
                       /\ a.Tahun <= b.Tahun
                       /\ a.Tipe = "Forecast" => b.Tipe = "Forecast" /\ a.Tahun < b.Tahun

\* an input in descending order of region and year whose output holds both
\* regions with their forecasts
C10_Witness ==
    /\ BatchDone
    /\ Len(InputTable) = 3
    /\ InputTable[1].Cakupan = "Bali" /\ InputTable[1].Tahun = 2029
    /\ InputTable[2].Cakupan = "Bali" /\ InputTable[2].Tahun = 2028
    /\ InputTable[3].Cakupan = "Aceh" /\ InputTable[3].Tahun = 2029
    /\ Len(df_display.rows) = 5
    /\ df_display.rows[1].Cakupan = "Aceh"
    /\ df_display.rows[3].Tahun = 2028

-----------------------------------------------------------------------------
(* The two extrapolators on the same series.                               *)

\* column c of the selected region's history has T >= 2 observations, none
\* missing, one per consecutive year
FullConsecutive(c) ==
    /\ Len(History) >= 2
    /\ \A k \in 1..Len(History) : ~IsNaN(History[k][c])
    /\ \A k \in 1..(Len(History) - 1) : History[k + 1].Tahun = History[k].Tahun + 1

\* the Forecast rows tab 3 shows for the region selected in tab 2
DriftRows ==
    IF df_display.present
    THEN SelectSeq(df_display.rows,
                   LAMBDA r : r.Tipe = "Forecast" /\ r.Cakupan = daerah2)
    ELSE <<>>

====
